---- MODULE Spec2Model ----
(***************************************************************************)
(* Landing page built from CMS blocks: the page component HomePage         *)
(* (src/src/app/(frontend)/page.tsx), the block renderers ContentBlock     *)
(* (src/unnamed/part_000) and NewsletterBlock (src/unnamed/part_001), and  *)
(* the newsletter form's submit handler with its FormState.                *)
(*                                                                         *)
(* Two specifications share the variables:                                 *)
(*   Spec      one mounted NewsletterBlock instance on a rendered page:    *)
(*             typing, submit events, responses, the reset timer, time.    *)
(*   SpecPage  one server render of HomePage over a CMS result.            *)
(***************************************************************************)
EXTENDS Integers, Sequences, FiniteSets, TLC

VARIABLES
    cms,           \* what payload.find returns for the slug: its docs array
    page,          \* HomePage: the destructured first doc (or undefined)
    pc,            \* HomePage: position in the component body
    children,      \* HomePage: the elements page.layout.map has produced so far
    block,         \* NewsletterBlock: the block prop of the mounted instance
    formState,     \* NewsletterBlock: useState<FormState>
    inputs,        \* values of the form's <input> elements, in document order
    inflight,      \* fetch calls awaited by a handleSubmit invocation
    posted,        \* arguments of the most recent fetch call
    timers,        \* pending setTimeout callbacks: time left, in scheduling order
    age,           \* time elapsed since formState was last set to success
    submitEvents,  \* submit events handled (e.preventDefault calls)
    sent,          \* fetch calls made
    lastResponse   \* outcome of the fetch that settled most recently

pageVars == <<cms, page, pc, children>>
formVars == <<block, formState, inputs, inflight, posted, timers, age,
              submitEvents, sent, lastResponse>>
vars == <<cms, page, pc, children, block, formState, inputs, inflight, posted,
          timers, age, submitEvents, sent, lastResponse>>

(***************************************************************************)
(* Bounds of the model.                                                    *)
(***************************************************************************)
MaxFields == 2
MaxSubmits == 3
MaxBlocks == 2

(***************************************************************************)
(* Program constants.                                                      *)
(***************************************************************************)
ResetDelay == 5
Sentinel == "newsletter-form-1"
FailureMessage == "Failed to submit form"
Endpoint == "/api/form-submissions"
LandingSlug == "landing-page"

\* JavaScript null and undefined, as values distinct from every string used.
Null == "<null>"
Undefined == "<undefined>"

\* if (x) / x && ... / x || ... on a string-or-null value
Truthy(v) == v # Null /\ v # Undefined /\ v # ""

(***************************************************************************)
(* FormState and its four shapes written by the component.                 *)
(***************************************************************************)
InitialFormState == [loading |-> FALSE, error |-> Null, success |-> FALSE]
LoadingFormState == [loading |-> TRUE, error |-> Null, success |-> FALSE]
SuccessFormState == [loading |-> FALSE, error |-> Null, success |-> TRUE]
ErrorFormState == [loading |-> FALSE, error |-> FailureMessage, success |-> FALSE]

(***************************************************************************)
(* CMS data: form fields, forms, blocks.                                   *)
(***************************************************************************)
\* Names that are canonical array indices ("2", "10") and one that is not.
\* ArrayIndex gives the number a name denotes as an object key, -1 if none.
ArrayIndex(name) ==
    CASE name = "2" -> 2
      [] name = "10" -> 10
      [] OTHER -> -1

EmailField == [blockType |-> "email", name |-> "email", label |-> "Email",
               required |-> TRUE]
TextField(n) == [blockType |-> "text", name |-> n, label |-> Null,
                 required |-> FALSE]
\* A message field of the form builder: no name, no input.
MessageField == [blockType |-> "message"]

FieldPool == {EmailField, TextField("10"), TextField("2"), MessageField}

SeqsUpTo(S, n) == UNION {[1..k -> S] : k \in 0..n}

Values == {"", "a@b.com"}

NullForm == [kind |-> "null"]
UnresolvedForm == [kind |-> "id", id |-> 42]
\* Forms are drawn with a submit label when they have fields, without one
\* when they have none.
ResolvedForm(title, fields) ==
    [kind |-> "object", id |-> 42, title |-> title, fields |-> fields,
     submitButtonLabel |-> IF fields # <<>> THEN "Join" ELSE Null,
     confirmationMessage |-> "Thanks"]

Titles == {Sentinel, "newsletter-form-2"}

Forms ==
    {NullForm, UnresolvedForm}
        \cup {ResolvedForm(t, fs) : t \in Titles, fs \in SeqsUpTo(FieldPool, MaxFields)}

NewsletterBlockOf(form) ==
    [blockType |-> "newsletter-form", id |-> "n1", heading |-> "Subscribe",
     form |-> form]

NoBlock == [blockType |-> "none"]

(***************************************************************************)
(* typeof and optional chaining on a form reference.                       *)
(***************************************************************************)
\* typeof null is "object"; an unresolved reference is the form's numeric id.
TypeOf(form) == IF form.kind = "id" THEN "number" ELSE "object"

\* !block.form
Falsy(form) == form.kind = "null" \/ (form.kind = "id" /\ form.id = 0)

\* block?.form?.title
TitleOf(form) == IF form.kind = "object" THEN form.title ELSE Undefined

\* block.form.id, read after the guard
IdOf(form) == IF form.kind = "object" THEN form.id ELSE Undefined

FieldsOf(form) == IF form.kind = "object" THEN form.fields ELSE <<>>

IsResolved(form) == form.kind = "object"

(***************************************************************************)
(* NewsletterBlock: the markup returned for a block and a FormState.       *)
(***************************************************************************)
\* Gate as it would be without the comparison of the title.
GateResolvedOnly(b) == TypeOf(b.form) = "object" /\ b.form.kind = "object"

\* The display gate of the form markup.
Gate(b) == TypeOf(b.form) = "object" /\ TitleOf(b.form) = Sentinel

\* FieldElement as it would be without the test for a name.
FieldElementUnfiltered(field) ==
    [tag |-> "input",
     key |-> IF "name" \in DOMAIN field THEN field.name ELSE Undefined,
     type |-> IF field.blockType = "email" THEN "email" ELSE "text",
     name |-> IF "name" \in DOMAIN field THEN field.name ELSE Undefined,
     required |-> IF "required" \in DOMAIN field THEN field.required ELSE FALSE,
     placeholder |-> ""]

\* One entry of block.form.fields.map: null for a field without a name,
\* otherwise the labelled <input>.
FieldElement(field) ==
    IF ~("name" \in DOMAIN field)
    THEN [tag |-> "null"]
    ELSE [tag |-> "input",
          key |-> field.name,
          type |-> IF field.blockType = "email" THEN "email" ELSE "text",
          name |-> field.name,
          required |-> field.required,
          placeholder |-> IF Truthy(field.label) THEN field.label ELSE ""]

FieldElements(form) ==
    [i \in 1..Len(FieldsOf(form)) |-> FieldElement(FieldsOf(form)[i])]

\* React renders a null child as nothing: the <input> elements of the DOM.
IsInput(el) == el.tag = "input"
DomInputs(els) == SelectSeq(els, IsInput)

\* FormMarkup as it would be with the button outside the conditional.
FormMarkupButtonAlways(b, st) ==
    [tag |-> "form",
     heading |-> b.heading,
     fields |-> FieldElements(b.form),
     error |-> IF Truthy(st.error) THEN st.error ELSE Null,
     confirmation |-> IF st.success THEN b.form.confirmationMessage ELSE Null,
     button |-> IF Truthy(b.form.submitButtonLabel)
                THEN b.form.submitButtonLabel
                ELSE "Submit"]

FormMarkup(b, st) ==
    [tag |-> "form",
     heading |-> b.heading,
     fields |-> FieldElements(b.form),
     error |-> IF Truthy(st.error) THEN st.error ELSE Null,
     confirmation |-> IF st.success THEN b.form.confirmationMessage ELSE Null,
     button |-> IF st.success
                THEN Null
                ELSE IF Truthy(b.form.submitButtonLabel)
                     THEN b.form.submitButtonLabel
                     ELSE "Submit"]

\* The outer <div> is always returned; the form markup only behind the gate.
NewsletterBlock(b, st) ==
    [tag |-> "div",
     children |-> IF Gate(b) THEN <<FormMarkup(b, st)>> ELSE <<>>]

\* The <input> elements of the mounted instance (none when nothing renders).
InputsOf(b) ==
    IF Gate(b) THEN DomInputs(FieldElements(b.form)) ELSE <<>>

(***************************************************************************)
(* Serialization of the form: FormData, Object.fromEntries,                *)
(* Object.entries, and the request body.                                   *)
(***************************************************************************)
\* new FormData(form).entries(): one [name, value] per input, document order.
FormDataEntries(els, vals) ==
    [i \in 1..Len(els) |-> [name |-> els[i].name, value |-> vals[i]]]

\* An object as its properties in creation order.
HasKey(obj, k) == \E i \in 1..Len(obj) : obj[i].name = k

SetProperty(obj, k, v) ==
    IF HasKey(obj, k)
    THEN [i \in 1..Len(obj) |->
            IF obj[i].name = k THEN [name |-> k, value |-> v] ELSE obj[i]]
    ELSE Append(obj, [name |-> k, value |-> v])

RECURSIVE ObjectFromEntries(_)
ObjectFromEntries(entries) ==
    IF entries = <<>>
    THEN <<>>
    ELSE LET n == Len(entries)
             rest == ObjectFromEntries(SubSeq(entries, 1, n - 1))
         IN  SetProperty(rest, entries[n].name, entries[n].value)

\* Own property keys are enumerated with array-index keys first, in
\* ascending numeric order, then the other string keys in creation order.
IsIndexProperty(p) == ArrayIndex(p.name) >= 0
IsNamedProperty(p) == ArrayIndex(p.name) < 0

RECURSIVE SortByIndex(_)
SortByIndex(props) ==
    IF props = <<>>
    THEN <<>>
    ELSE LET m == CHOOSE i \in 1..Len(props) :
                    \A j \in 1..Len(props) :
                        ArrayIndex(props[i].name) <= ArrayIndex(props[j].name)
             others == [i \in 1..(Len(props) - 1) |->
                          IF i < m THEN props[i] ELSE props[i + 1]]
         IN  <<props[m]>> \o SortByIndex(others)

\* ObjectEntries as it would be if keys were enumerated in creation order.
ObjectEntriesCreationOrder(obj) == obj

ObjectEntries(obj) ==
    SortByIndex(SelectSeq(obj, IsIndexProperty)) \o SelectSeq(obj, IsNamedProperty)

SubmissionData(els, vals) ==
    LET data == ObjectEntries(ObjectFromEntries(FormDataEntries(els, vals)))
    IN  [i \in 1..Len(data) |-> [field |-> data[i].name, value |-> data[i].value]]

RequestBody(b, vals) ==
    [form |-> IdOf(b.form), submissionData |-> SubmissionData(InputsOf(b), vals)]

FetchCall(b, vals) ==
    [url |-> Endpoint, method |-> "POST", contentType |-> "application/json",
     body |-> RequestBody(b, vals)]

NoFetch == [url |-> Null]

(***************************************************************************)
(* Block renderers and the dispatcher of the page.                         *)
(***************************************************************************)
HeroBlock(b) == [tag |-> "div", heading |-> b.heading]

ContentBlock(b) == [tag |-> "div", heading |-> b.heading, richText |-> b.content]

NullElement == [component |-> "null"]

\* The element renderBlock returns: the component, its key and its props.
Element(component, b) == [component |-> component, key |-> b.id, props |-> b]

\* renderBlock as it would be with the newsletter case missing.
renderBlockMissingCase(b) ==
    CASE b.blockType = "hero" -> Element("HeroBlock", b)
      [] b.blockType = "content" -> Element("ContentBlock", b)
      [] OTHER -> NullElement

renderBlock(b) ==
    CASE b.blockType = "hero" -> Element("HeroBlock", b)
      [] b.blockType = "content" -> Element("ContentBlock", b)
      [] b.blockType = "newsletter-form" -> Element("NewsletterBlock", b)
      [] OTHER -> NullElement

\* What React puts on the page for an element; a mounted NewsletterBlock
\* starts from the initial FormState.
Markup(el) ==
    CASE el.component = "HeroBlock" -> <<HeroBlock(el.props)>>
      [] el.component = "ContentBlock" -> <<ContentBlock(el.props)>>
      [] el.component = "NewsletterBlock" ->
            <<NewsletterBlock(el.props, InitialFormState)>>
      [] OTHER -> <<>>

PageBlocks ==
    {[blockType |-> "hero", id |-> "h1", heading |-> "Welcome"],
     [blockType |-> "content", id |-> "c1", heading |-> "About",
      content |-> "rich text"],
     [blockType |-> "banner", id |-> "x1"],
     NewsletterBlockOf(ResolvedForm(Sentinel, <<EmailField>>)),
     NewsletterBlockOf(ResolvedForm("newsletter-form-2", <<EmailField>>)),
     NewsletterBlockOf(UnresolvedForm)}

PageDoc(layout) == [slug |-> LandingSlug, layout |-> layout]
\* A document stored without a layout.
BareDoc == [slug |-> LandingSlug]

UndefinedPage == [slug |-> Undefined]

\* page.layout?.map: no layout maps nothing.
LayoutOf(doc) == IF "layout" \in DOMAIN doc THEN doc.layout ELSE <<>>

(***************************************************************************)
(* HomePage, one server render.                                            *)
(***************************************************************************)
\* const { docs: [page] } = await payload.find(...)
Find ==
    /\ pc = "find"
    /\ page' = IF cms = <<>> THEN UndefinedPage ELSE cms[1]
    /\ pc' = "check"
    /\ UNCHANGED <<cms, children>>
    /\ UNCHANGED formVars

\* CheckPage as it would be if a missing page were fetched again.
CheckPageRetries ==
    /\ pc = "check"
    /\ pc' = IF page = UndefinedPage THEN "find" ELSE "map"
    /\ UNCHANGED <<cms, page, children>>
    /\ UNCHANGED formVars

\* if (!page) return <div>Page not found</div>
CheckPage ==
    /\ pc = "check"
    /\ pc' = IF page = UndefinedPage THEN "notfound" ELSE "map"
    /\ UNCHANGED <<cms, page, children>>
    /\ UNCHANGED formVars

\* One callback of page.layout?.map((block) => renderBlock(block)).
MapBlock ==
    /\ pc = "map"
    /\ Len(children) < Len(LayoutOf(page))
    /\ children' = Append(children, renderBlock(LayoutOf(page)[Len(children) + 1]))
    /\ UNCHANGED <<cms, page, pc>>
    /\ UNCHANGED formVars

\* return <div><div className="page">{...}</div></div>
ReturnPage ==
    /\ pc = "map"
    /\ Len(children) = Len(LayoutOf(page))
    /\ pc' = "done"
    /\ UNCHANGED <<cms, page, children>>
    /\ UNCHANGED formVars

\* What HomePage has returned: the placeholder, or the page with the mapped
\* elements; nothing while the component body is still running.
NotFoundPlaceholder == [tag |-> "div", text |-> "Page not found", children |-> <<>>]

HomePage ==
    CASE pc = "notfound" -> NotFoundPlaceholder
      [] pc = "done" -> [tag |-> "div", text |-> Null, children |-> children]
      [] OTHER -> [tag |-> "pending"]

(***************************************************************************)
(* The mounted NewsletterBlock instance.                                   *)
(***************************************************************************)
\* GuardReturns as it would be with the null test alone.
GuardNullOnly(b) == Falsy(b.form)

\* if (!block.form || typeof block.form !== 'object') return
GuardReturns(b) == Falsy(b.form) \/ TypeOf(b.form) # "object"

\* form.reset(): every input back to its default value, the empty string.
ResetInputs(vals) == [i \in 1..Len(vals) |-> ""]

\* The user edits one input.
Type ==
    /\ \E i \in 1..Len(inputs) : \E v \in Values :
          /\ v # inputs[i]
          /\ inputs' = [inputs EXCEPT ![i] = v]
    /\ UNCHANGED <<block, formState, inflight, posted, timers, age, submitEvents,
                   sent, lastResponse>>
    /\ UNCHANGED pageVars

\* handleSubmit up to its await: preventDefault, the guard, setFormState,
\* the serialization and the fetch call.  The <form> whose onSubmit it is
\* exists only behind the display gate; for a block whose form is not a
\* resolved object the handler is invoked with no form on the page, which is
\* the one way its guard is reached.  Nothing in the component ties a submit
\* event to the FormState: the button is never disabled, and the handler
\* tests neither loading nor success.
handleSubmit ==
    /\ submitEvents < MaxSubmits
    /\ Gate(block) \/ ~IsResolved(block.form)
    /\ submitEvents' = submitEvents + 1
    /\ IF GuardReturns(block)
       THEN UNCHANGED <<formState, inflight, posted, age, sent>>
       ELSE /\ formState' = LoadingFormState
            /\ posted' = FetchCall(block, inputs)
            /\ inflight' = inflight + 1
            /\ sent' = sent + 1
            /\ age' = 0
    /\ UNCHANGED <<block, inputs, timers, lastResponse>>
    /\ UNCHANGED pageVars

\* Schedule as it would be if no timer were set.
ScheduleNothing(ts) == ts

\* setTimeout(..., 5000)
Schedule(ts) == Append(ts, ResetDelay)

\* RespondOk as it would be without the call of form.reset().
RespondOkNoReset ==
    /\ inflight > 0
    /\ inflight' = inflight - 1
    /\ lastResponse' = "ok"
    /\ formState' = SuccessFormState
    /\ timers' = Append(timers, ResetDelay)
    /\ age' = 0
    /\ UNCHANGED <<block, inputs, posted, submitEvents, sent>>
    /\ UNCHANGED pageVars

\* The fetch resolves with response.ok: the rest of the try block.
RespondOk ==
    /\ inflight > 0
    /\ inflight' = inflight - 1
    /\ lastResponse' = "ok"
    /\ formState' = SuccessFormState
    /\ inputs' = ResetInputs(inputs)
    /\ timers' = Schedule(timers)
    /\ age' = 0
    /\ UNCHANGED <<block, posted, submitEvents, sent>>
    /\ UNCHANGED pageVars

\* Catch as it would be if it also reset the form.
CatchResetsForm ==
    /\ formState' = ErrorFormState
    /\ inputs' = [i \in 1..Len(inputs) |-> ""]
    /\ age' = 0
    /\ UNCHANGED <<block, posted, timers, submitEvents, sent>>
    /\ UNCHANGED pageVars

\* Catch as it would be if it updated the error field of the previous state.
CatchKeepsFlags ==
    /\ formState' = [formState EXCEPT !.error = FailureMessage]
    /\ age' = 0
    /\ UNCHANGED <<block, inputs, posted, timers, submitEvents, sent>>
    /\ UNCHANGED pageVars

\* Catch as it would be if a failure were shown only while still loading.
CatchIfLoading ==
    /\ formState' = IF formState.loading THEN ErrorFormState ELSE formState
    /\ age' = IF formState.loading THEN 0 ELSE age
    /\ UNCHANGED <<block, inputs, posted, timers, submitEvents, sent>>
    /\ UNCHANGED pageVars

\* Catch as it would be if a failure sent the request once more.
CatchRetries ==
    /\ formState' = ErrorFormState
    /\ sent' = sent + 1
    /\ age' = 0
    /\ UNCHANGED <<block, inputs, posted, timers, submitEvents>>
    /\ UNCHANGED pageVars

\* catch (error): console.error, setFormState with the generic message.
Catch ==
    /\ formState' = ErrorFormState
    /\ age' = 0
    /\ UNCHANGED <<block, inputs, posted, timers, submitEvents, sent>>
    /\ UNCHANGED pageVars

\* The fetch resolves with !response.ok: the handler throws into its catch.
RespondNotOk ==
    /\ inflight > 0
    /\ inflight' = inflight - 1
    /\ lastResponse' = "notok"
    /\ Catch

\* FetchThrows as it would be if the catch showed the message of the error
\* it caught.
FetchThrowsOwnMessage ==
    /\ inflight > 0
    /\ inflight' = inflight - 1
    /\ lastResponse' = "thrown"
    /\ formState' = [loading |-> FALSE, error |-> "Failed to fetch", success |-> FALSE]
    /\ age' = 0
    /\ UNCHANGED <<block, inputs, posted, timers, submitEvents, sent>>
    /\ UNCHANGED pageVars

\* The fetch rejects.
FetchThrows ==
    /\ inflight > 0
    /\ inflight' = inflight - 1
    /\ lastResponse' = "thrown"
    /\ Catch

\* The callback of a due timer runs.
TimerFires ==
    /\ timers # <<>>
    /\ Head(timers) = 0
    /\ timers' = Tail(timers)
    /\ formState' = InitialFormState
    /\ age' = 0
    /\ UNCHANGED <<block, inputs, inflight, posted, submitEvents, sent, lastResponse>>
    /\ UNCHANGED pageVars

\* One time unit (a second) passes; a due timer runs before time moves on.
Tick ==
    /\ \A i \in 1..Len(timers) : timers[i] > 0
    /\ timers' = [i \in 1..Len(timers) |-> timers[i] - 1]
    /\ age' = IF formState.success
              THEN IF age > ResetDelay THEN age ELSE age + 1
              ELSE 0
    /\ UNCHANGED <<block, formState, inputs, inflight, posted, submitEvents, sent,
                   lastResponse>>
    /\ UNCHANGED pageVars

(***************************************************************************)
(* Specifications.                                                         *)
(***************************************************************************)
FormInit ==
    /\ formState = InitialFormState
    /\ inputs = ResetInputs(InputsOf(block))
    /\ inflight = 0
    /\ posted = NoFetch
    /\ timers = <<>>
    /\ age = 0
    /\ submitEvents = 0
    /\ sent = 0
    /\ lastResponse = "none"

\* A page whose layout is one newsletter block, rendered and hydrated.
Init ==
    /\ block \in {NewsletterBlockOf(f) : f \in Forms}
    /\ cms = <<PageDoc(<<block>>)>>
    /\ page = PageDoc(<<block>>)
    /\ pc = "done"
    /\ children = <<renderBlock(block)>>
    /\ FormInit

Next ==
    \/ Type
    \/ handleSubmit
    \/ RespondOk
    \/ RespondNotOk
    \/ FetchThrows
    \/ TimerFires
    \/ Tick

Spec == Init /\ [][Next]_vars

\* The instance under the scheduling of the event loop: a pending fetch
\* settles, a due timer callback runs, and time passes.  The submission flow
\* does not read the fields, so the instances are drawn from one rendered
\* form and one unresolved reference.
InitLive ==
    /\ Init
    /\ block.form \in {UnresolvedForm, ResolvedForm(Sentinel, <<EmailField>>)}

Fairness ==
    /\ WF_vars(RespondOk \/ RespondNotOk \/ FetchThrows)
    /\ WF_vars(TimerFires)
    /\ WF_vars(Tick)

SpecLive == InitLive /\ [][Next]_vars /\ Fairness

\* A request for the page, before any client component is mounted.
InitPage ==
    /\ cms \in {<<>>, <<BareDoc>>}
                \cup {<<PageDoc(l)>> : l \in SeqsUpTo(PageBlocks, MaxBlocks)}
    /\ page = UndefinedPage
    /\ pc = "find"
    /\ children = <<>>
    /\ block = NoBlock
    /\ inputs = <<>>
    /\ formState = InitialFormState
    /\ inflight = 0
    /\ posted = NoFetch
    /\ timers = <<>>
    /\ age = 0
    /\ submitEvents = 0
    /\ sent = 0
    /\ lastResponse = "none"

NextPage ==
    \/ Find
    \/ CheckPage
    \/ MapBlock
    \/ ReturnPage

SpecPage == InitPage /\ [][NextPage]_vars

(***************************************************************************)
(* Vocabulary of the properties.                                           *)
(***************************************************************************)
\* The kinds of step of the mounted instance, read off what they change.
SubmitStep == submitEvents' = submitEvents + 1
SettleStep(outcomes) == inflight' = inflight - 1 /\ lastResponse' \in outcomes
TimerStep == Len(timers') = Len(timers) - 1

AllEmpty(vals) == \A i \in 1..Len(vals) : vals[i] = ""
SomeFilled(vals) == \E i \in 1..Len(vals) : vals[i] # ""
PostedFilled ==
    /\ posted # NoFetch
    /\ \E i \in 1..Len(posted.body.submissionData) :
          posted.body.submissionData[i].value # ""

FormStates ==
    [loading : BOOLEAN, error : {Null, FailureMessage}, success : BOOLEAN]

\* C1. From Idle with a resolved form, a submit event moves the state to
\* Loading, and an ok response met in Loading moves it to Success, empties
\* every input and puts the confirmation message in place of the button; as
\* long as that one submission is the only one and has not failed, the state
\* is Loading while it is in flight, Success while its reset is pending and
\* Idle otherwise.
C1_OkFlow ==
    [][/\ (SubmitStep /\ IsResolved(block.form) /\ formState = InitialFormState)
            => formState' = LoadingFormState
       /\ (SettleStep({"ok"}) /\ formState = LoadingFormState)
            => /\ formState' = SuccessFormState
               /\ AllEmpty(inputs')
               /\ Len(inputs') = Len(inputs)
               /\ LET out == NewsletterBlock(block, formState').children
                  IN  /\ out # <<>>
                      /\ out[1].confirmation = block.form.confirmationMessage
                      /\ out[1].button = Null
       /\ (submitEvents' = 1 /\ IsResolved(block.form)
             /\ lastResponse' \in {"none", "ok"})
            => formState' = IF inflight' = 1 THEN LoadingFormState
                            ELSE IF timers' # <<>> THEN SuccessFormState
                            ELSE InitialFormState
      ]_vars

C1_Witness ==
    /\ submitEvents = 1
    /\ lastResponse = "ok"
    /\ formState = SuccessFormState
    /\ PostedFilled
    /\ inputs # <<>>
    /\ AllEmpty(inputs)

\* C2. A non-ok response or a thrown fetch met in Loading moves the state to
\* Error with the message "Failed to submit form", leaves the inputs as they
\* are and schedules nothing; a submit event in Error sends a request and
\* moves the state to Loading with the error cleared; as long as one
\* submission is the only one and has not succeeded, the state is Loading
\* while it is in flight and Error after it failed, with no timer pending.
C2_ErrorFlow ==
    [][/\ (SettleStep({"notok", "thrown"}) /\ formState = LoadingFormState)
            => /\ formState' = ErrorFormState
               /\ formState'.error = "Failed to submit form"
               /\ inputs' = inputs
               /\ timers' = timers
       /\ (SubmitStep /\ IsResolved(block.form) /\ formState = ErrorFormState)
            => /\ formState' = LoadingFormState
               /\ sent' = sent + 1
               /\ inflight' = inflight + 1
       /\ (submitEvents' = 1 /\ IsResolved(block.form)
             /\ lastResponse' \in {"none", "notok", "thrown"})
            => /\ formState' = IF inflight' = 1 THEN LoadingFormState
                               ELSE ErrorFormState
               /\ timers' = <<>>
      ]_vars

\* A second submission, made from Error, is in flight with the inputs kept.
C2_Witness ==
    /\ submitEvents = 2
    /\ sent = 2
    /\ inflight = 1
    /\ lastResponse \in {"notok", "thrown"}
    /\ formState = LoadingFormState
    /\ timers = <<>>
    /\ SomeFilled(inputs)

\* C3. Whenever the state is Success, the reset scheduled when it was set is
\* pending and due exactly ResetDelay time units after that moment, time does
\* not pass a due reset, and a reset that runs leaves the state Idle with
\* every field at its initial value.
C3_ResetAfterDelay ==
    [][/\ formState'.success
            => /\ timers' # <<>>
               /\ timers'[Len(timers')] = ResetDelay - age'
               /\ age' <= ResetDelay
       /\ TimerStep
            => /\ formState' = [loading |-> FALSE, error |-> Null, success |-> FALSE]
               /\ Head(timers) = 0
      ]_vars

\* The reset of the only submission has run, ResetDelay after its success.
C3_Witness ==
    /\ sent = 1
    /\ inflight = 0
    /\ lastResponse = "ok"
    /\ timers = <<>>
    /\ formState = InitialFormState

\* C4. At most one submission request of the form instance is in flight.
C4_AtMostOneInFlight == inflight <= 1

\* C5. The submission state is in exactly one of the four modes Idle,
\* Loading, Error, Success; no two of loading, error and success are set.
C5_OneMode ==
    \/ /\ ~formState.loading /\ formState.error = Null /\ ~formState.success
    \/ /\ formState.loading /\ formState.error = Null /\ ~formState.success
    \/ /\ ~formState.loading /\ formState.error # Null /\ ~formState.success
    \/ /\ ~formState.loading /\ formState.error = Null /\ formState.success

\* An error set while another submission is still in flight.
C5_Witness ==
    /\ formState.error # Null
    /\ inflight = 1
    /\ sent = 2

\* C6. Under every submission state the block renders form markup exactly
\* when its form reference is a resolved object whose title is
\* "newsletter-form-1"; an unresolved reference, a null form and any other
\* title render no form markup, whatever the fields.
C6_DisplayGate ==
    \A st \in FormStates \cup {formState} :
        (NewsletterBlock(block, st).children # <<>>)
            <=> (block.form.kind = "object" /\ block.form.title = "newsletter-form-1")

\* A resolved form with fields and another title.
C6_Witness ==
    /\ block.form.kind = "object"
    /\ block.form.title # Sentinel
    /\ Len(block.form.fields) = MaxFields
    /\ NewsletterBlock(block, formState).children = <<>>

\* C7. The page holds one element per block of the layout, in the order of
\* the layout: for a hero, content or newsletter-form block the element of
\* its own renderer, keyed by the block's id and showing that renderer's
\* output, for any other blockType the null element, which shows nothing;
\* the render ends with every block mapped.
C7_Dispatch ==
    LET layout == LayoutOf(page)
    IN  /\ pc \in {"find", "check", "map", "done", "notfound"}
        /\ Len(children) <= Len(layout)
        /\ pc = "done" => Len(children) = Len(layout)
        /\ \A i \in 1..Len(children) :
              LET b == layout[i]
                  el == children[i]
              IN  /\ b.blockType \notin {"hero", "content", "newsletter-form"}
                        => el = NullElement /\ Markup(el) = <<>>
                  /\ b.blockType = "hero"
                        => /\ el.component = "HeroBlock"
                           /\ el.key = b.id /\ el.props = b
                           /\ Markup(el) = <<HeroBlock(b)>>
                  /\ b.blockType = "content"
                        => /\ el.component = "ContentBlock"
                           /\ el.key = b.id /\ el.props = b
                           /\ Markup(el) = <<ContentBlock(b)>>
                  /\ b.blockType = "newsletter-form"
                        => /\ el.component = "NewsletterBlock"
                           /\ el.key = b.id /\ el.props = b
                           /\ Markup(el) = <<NewsletterBlock(b, InitialFormState)>>

\* A page rendered from an unrecognized block followed by a newsletter block.
C7_Witness ==
    /\ pc = "done"
    /\ Len(children) = 2
    /\ LayoutOf(page)[1].blockType = "banner"
    /\ children[1] = NullElement
    /\ children[2].component = "NewsletterBlock"

\* The names of the form's inputs, in document order.
InputNames == [i \in 1..Len(InputsOf(block)) |-> InputsOf(block)[i].name]
FirstIndex(n) == CHOOSE i \in 1..Len(InputNames) :
                    InputNames[i] = n /\ \A j \in 1..(i - 1) : InputNames[j] # n
LastIndex(n) == CHOOSE i \in 1..Len(InputNames) :
                    /\ InputNames[i] = n
                    /\ \A j \in (i + 1)..Len(InputNames) : InputNames[j] # n

\* One pair per distinct input name, carrying the last value under the name.
OnePairPerName(call) ==
    LET sd == call.body.submissionData
    IN  /\ call.url = "/api/form-submissions"
        /\ call.method = "POST"
        /\ call.body.form = block.form.id
        /\ {sd[k].field : k \in 1..Len(sd)} = {InputNames[i] : i \in 1..Len(InputNames)}
        /\ \A j, k \in 1..Len(sd) : sd[j].field = sd[k].field => j = k
        /\ \A k \in 1..Len(sd) : sd[k].value = inputs[LastIndex(sd[k].field)]

KeyBefore(a, b) ==
    \/ ArrayIndex(a) >= 0 /\ ArrayIndex(b) >= 0 /\ ArrayIndex(a) < ArrayIndex(b)
    \/ ArrayIndex(a) >= 0 /\ ArrayIndex(b) < 0
    \/ ArrayIndex(a) < 0 /\ ArrayIndex(b) < 0 /\ FirstIndex(a) < FirstIndex(b)

HasName(field) == "name" \in DOMAIN field

\* C9. In the rendered form a field entry yields an input exactly when it
\* has a name, that input carrying the field's name, so the form has as many
\* inputs as named fields; every pair of a posted submissionData carries the
\* name of a named field.
C9_NamelessExcluded ==
    /\ Gate(block)
          => LET fields == block.form.fields
                 els == NewsletterBlock(block, formState).children[1].fields
             IN  /\ Len(els) = Len(fields)
                 /\ \A i \in 1..Len(fields) :
                       /\ (els[i].tag = "input") <=> HasName(fields[i])
                       /\ HasName(fields[i]) => els[i].name = fields[i].name
                 /\ Len(inputs) = Len(SelectSeq(fields, HasName))
    /\ posted # NoFetch
          => LET sd == posted.body.submissionData
                 fields == FieldsOf(block.form)
             IN  /\ Len(sd) <= Len(SelectSeq(fields, HasName))
                 /\ \A k \in 1..Len(sd) :
                       \E i \in 1..Len(fields) :
                          HasName(fields[i]) /\ fields[i].name = sd[k].field

\* A form with a nameless field and a named one, submitted.
C9_Witness ==
    /\ Gate(block)
    /\ \E i \in 1..Len(block.form.fields) : ~HasName(block.form.fields[i])
    /\ \E i \in 1..Len(block.form.fields) : HasName(block.form.fields[i])
    /\ PostedFilled

\* C10. A submit event on a block whose form reference is not a resolved
\* object sends no request and leaves the submission state, the inputs and
\* the timers as they are.
C10_GuardNoOp ==
    [][(SubmitStep /\ block.form.kind # "object")
          => /\ formState' = formState
             /\ inputs' = inputs
             /\ timers' = timers
             /\ inflight' = inflight
             /\ sent' = sent
             /\ posted' = posted
             /\ lastResponse' = lastResponse
      ]_vars

\* Submit events were handled for an unresolved reference.
C10_Witness ==
    /\ block.form.kind = "id"
    /\ submitEvents = MaxSubmits
    /\ sent = 0
    /\ formState = InitialFormState

\* C11. When the content source returns no document for the slug, the find
\* is followed by the not-found return alone: the page returned is the
\* placeholder, no block is mapped to an element, and the component never
\* goes back to the find.
C11_NotFound ==
    [][cms = <<>>
          => /\ pc' \in {"check", "notfound"}
             /\ page' = UndefinedPage
             /\ children' = <<>>
             /\ pc = "check"
                   => /\ pc' = "notfound"
                      /\ HomePage' = [tag |-> "div", text |-> "Page not found",
                                      children |-> <<>>]
      ]_vars

\* The placeholder returned for an empty result.
C11_Witness ==
    /\ cms = <<>>
    /\ pc = "notfound"
    /\ HomePage = NotFoundPlaceholder
    /\ children = <<>>

AnyOutcome == {"ok", "notok", "thrown"}

\* C12. Whatever the state and however many submissions are in flight, the
\* response that settles sets the state by its own outcome alone, Success
\* for ok and Error otherwise, so the state after the last request has
\* settled is that of the last response; the state then stays as it is until
\* a reset timer runs or a submit event is handled.
C12_LastResponseWins ==
    [][/\ SettleStep(AnyOutcome)
            => formState' = IF lastResponse' = "ok" THEN SuccessFormState
                            ELSE ErrorFormState
       /\ (inflight' = inflight /\ ~SubmitStep /\ ~TimerStep)
            => formState' = formState
      ]_vars

\* Two submissions overlapped: one has settled ok and decided the state
\* while the other is still in flight.
C12_Witness ==
    /\ sent = 2
    /\ inflight = 1
    /\ lastResponse = "ok"
    /\ formState = SuccessFormState

\* C13. Whenever a scheduled reset runs, the state just before it is Success.
C13_ResetOnlyFromSuccess ==
    [][TimerStep => formState = SuccessFormState]_vars

\* C14. loading is true exactly while a request of the instance is in flight.
C14_LoadingIffInFlight == formState.loading <=> inflight > 0

\* C15. A non-ok response and a thrown fetch have one outcome: from any
\* state, either leaves loading false, error "Failed to submit form" and
\* success false, takes the request out of flight and changes nothing else,
\* neither inputs nor timers; and error is never anything but null or that
\* message.
C15_UniformFailure ==
    [][/\ SettleStep({"notok", "thrown"})
            => /\ formState' = [loading |-> FALSE,
                                error |-> "Failed to submit form",
                                success |-> FALSE]
               /\ inputs' = inputs
               /\ timers' = timers
               /\ posted' = posted
               /\ sent' = sent
               /\ submitEvents' = submitEvents
       /\ formState'.error \in {Null, "Failed to submit form"}
      ]_vars

\* A thrown fetch left the message, the inputs as typed and no timer.
C15_Witness ==
    /\ sent = 1
    /\ lastResponse = "thrown"
    /\ formState = ErrorFormState
    /\ SomeFilled(inputs)
    /\ timers = <<>>

\* C16. The requests sent are as many as the submit events handled with a
\* resolved form, none for another form reference, and never fewer than
\* those in flight: no response, failed or not, sends a request.
C16_OneRequestPerSubmit ==
    /\ sent = IF IsResolved(block.form) THEN submitEvents ELSE 0
    /\ inflight <= sent

\* Two submissions, the last of them failed, and two requests in all.
C16_Witness ==
    /\ submitEvents = 2
    /\ sent = 2
    /\ inflight = 0
    /\ lastResponse = "notok"
    /\ formState = ErrorFormState

\* C17. Behind the display gate the button is shown exactly when success is
\* false, the confirmation message exactly when success is true, the error
\* message exactly when error is non-null, and the confirmation and the
\* error message are never shown together.
C17_VisibleElements ==
    Gate(block)
        => LET m == NewsletterBlock(block, formState).children[1]
           IN  /\ (m.button # Null) <=> ~formState.success
               /\ (m.confirmation # Null) <=> formState.success
               /\ (m.error # Null) <=> (formState.error # Null)
               /\ formState.error # Null => m.error = formState.error
               /\ ~(m.confirmation # Null /\ m.error # Null)

\* The error message and the button on show after a failed submission.
C17_Witness ==
    /\ Gate(block)
    /\ sent = 1
    /\ lastResponse = "notok"
    /\ NewsletterBlock(block, formState).children[1].error = FailureMessage
    /\ NewsletterBlock(block, formState).children[1].button = "Join"

\* C18. When every request sent settles, every scheduled reset runs and the
\* submit events come to an end, the state eventually is Idle or Error and
\* stays so: it remains neither in Loading nor in Success forever.
C18_SettlesIdleOrError ==
    <>[](formState = InitialFormState \/ formState = ErrorFormState)

\* Every submission made, overlapping ones included, has settled, every
\* reset has run, and the state rests in Error.
C18_Witness ==
    /\ submitEvents = MaxSubmits
    /\ sent = MaxSubmits
    /\ inflight = 0
    /\ timers = <<>>
    /\ lastResponse = "thrown"
    /\ formState = ErrorFormState

====
